---- MODULE Spec2Model ----
(***************************************************************************)
(* Model of sidewall/ratelimit.py: the RateLimit token bucket (pause,      *)
(* restock) and the limit_wrapper closure built by rate_limit().           *)
(*                                                                         *)
(* Time is perf_counter() in whole ticks.  Spec is the sequential use of   *)
(* one bucket (one caller at a time, the clock free to advance between any *)
(* two statements); LiveSpec adds the fairness of a running thread;        *)
(* RaceSpec runs two threads through pause() statement by statement;       *)
(* PairSpec builds two wrappers with rate_limit() and calls them in turn.  *)
(***************************************************************************)
EXTENDS Integers, FiniteSets, Sequences, TLC

\* ---------------------------------------------------------------- bounds
\* Last clock value at which the environment still starts operations.
MaxTime == 5
\* Largest max_calls a bucket is constructed with.
MaxQuota == 3
\* Largest time_limit a bucket is constructed with.
MaxWindow == 2

\* The same for the two-decorator specification: last clock value at which
\* operations start, and largest max_calls given to rate_limit.
PairTime == 3
PairQuota == 2

\* Wrapped functions sharing the bucket, and what a wrapped function can do.
Funcs == {"f1", "f2"}
FuncOutcomes == {"ret_a", "ret_b", "err_x"}

VARIABLES
    max_calls,    \* self.max_calls
    time_limit,   \* self.time_limit
    token,        \* self.token
    time,         \* self.time, the window start
    clock,        \* perf_counter()
    pc,           \* position of the sequential caller
    cur,          \* the wrapped function of the wrapper call in progress
    now,          \* limit_wrapper's local now (line 92)
    ret,          \* what the last pause() or restock() returned
    refilled,     \* whether that pause()/restock() refilled the bucket
    granted,      \* pause() calls that returned False since the last refill
    proceeded,    \* per wrapped function: invocations since the last refill
    recent,       \* per age a < time_limit: tokens handed out at clock - a
    blocked,      \* this wrapper call: a pause() of it returned True
    w0,           \* this wrapper call: the window start when it first blocked
    slept,        \* this wrapper call: sleeps completed
    invoked,      \* this wrapper call: invocations of the wrapped function
    funcOutcome,  \* this wrapper call: what the wrapped function did
    result,       \* this wrapper call: what the wrapper call did
    tpc,          \* RaceSpec: each thread's position in pause()/restock()
    tnow,         \* RaceSpec: each thread's local now in restock (line 70)
    treg,         \* RaceSpec: each thread's loaded self.token (line 65)
    raced,        \* RaceSpec: a decrement overwrote an update or went below 0
    bkt,          \* PairSpec: the RateLimit objects, in order of construction
    obj,          \* PairSpec: per wrapper, its closure's obj (0: not built yet)
    byArg,        \* PairSpec: per wrapper, the obj argument rate_limit was given
    qpc,          \* PairSpec: position of the caller in limit_wrapper
    qcur,         \* PairSpec: the wrapper being called
    qnow,         \* PairSpec: limit_wrapper's local now (line 92)
    qgranted      \* PairSpec: per wrapper, its calls that proceeded since its
                  \* bucket's last refill

bucketVars == <<max_calls, time_limit>>
callVars == <<blocked, w0, slept, invoked, funcOutcome, result>>
raceVars == <<tpc, tnow, treg, raced>>
pairVars == <<bkt, obj, byArg, qpc, qcur, qnow, qgranted>>
vars == <<max_calls, time_limit, token, time, clock, pc, cur, now, ret, refilled,
          granted, proceeded, recent, blocked, w0, slept, invoked, funcOutcome,
          result, tpc, tnow, treg, raced, bkt, obj, byArg, qpc, qcur, qnow,
          qgranted>>

Threads == {1, 2}

\* Two decorated functions, each made by its own rate_limit(...) call.
Wrappers == {"g1", "g2"}

\* ------------------------------------------------------ RateLimit, pure
\* Slips of the token test: 0 counted as available; 1 counted as exhausted.
TokenExhaustedBelowZero(tok) == tok < 0
TokenExhaustedAtOne(tok) == tok <= 1

\* line 63: self.token <= 0
TokenExhausted(tok) == tok <= 0

\* Slip of the window test: the boundary itself still counts as inside.
WindowActiveInclusive(nw, tm, tl) == (nw - tm) <= tl

\* Slip of the window test: the window ends one tick early.
WindowActiveShort(nw, tm, tl) == (nw - tm) < tl - 1

\* line 71: (now - self.time) < self.time_limit
WindowActive(nw, tm, tl) == (nw - tm) < tl

\* Slip of the refill: one token too many.
RefillTokenOneMore(mc) == mc + 1

\* line 73: self.token = self.max_calls
RefillToken(mc) == mc

\* Slip of the decrement: two tokens taken.
TakeTokenTwice(tok) == tok - 2

\* line 65: self.token -= 1
TakeToken(tok) == tok - 1

\* line 93: obj.time_limit - (now - obj.time)
SleepFor(tl, nw, tm) == tl - (nw - tm)

\* Slip of the wrapper: a call whose function raised gives its token back.
TokenAfterCallRefund(tok, o) == IF o = "err_x" THEN tok + 1 ELSE tok

\* line 94: return func(*args, **kwargs), with no handler around it: the
\* bucket is not touched again, whatever func does.
TokenAfterCall(tok, o) == tok

\* restock(), lines 69-75, called with the clock reading nw.
RestockResult(tok, tm, nw, mc, tl) ==
    IF WindowActive(nw, tm, tl)
    THEN [ret |-> FALSE, token |-> tok, time |-> tm]
    ELSE [ret |-> TRUE, token |-> RefillToken(mc), time |-> nw]

\* pause(), lines 62-66, called with the clock reading nw.  restock() is
\* called only when the token test succeeds (short-circuit and).
PauseResult(tok, tm, nw, mc, tl) ==
    IF TokenExhausted(tok)
    THEN LET r == RestockResult(tok, tm, nw, mc, tl) IN
         IF ~r.ret
         THEN [ret |-> TRUE, token |-> tok, time |-> tm, refilled |-> FALSE]
         ELSE [ret |-> FALSE, token |-> TakeToken(r.token), time |-> r.time,
               refilled |-> TRUE]
    ELSE [ret |-> FALSE, token |-> TakeToken(tok), time |-> tm,
          refilled |-> FALSE]

\* ------------------------------------------------------- history helpers
NoCalls == [f \in Funcs |-> 0]

RECURSIVE SumOver(_, _)
SumOver(f, S) ==
    IF S = {} THEN 0
    ELSE LET x == CHOOSE y \in S : TRUE IN f[x] + SumOver(f, S \ {x})

Proceeded == SumOver(proceeded, Funcs)

\* Tokens handed out in the last time_limit ticks, the current one included.
RecentTokens == SumOver(recent, DOMAIN recent)

\* The per-age counts after the clock has advanced by d.
Aged(r, d) == [a \in DOMAIN r |-> IF a >= d THEN r[a - d] ELSE 0]

\* ------------------------------------------------------------------ Init
\* RateLimit.__init__, lines 55-59, at clock 0; no call in progress.
Init ==
    /\ max_calls \in 0..MaxQuota
    /\ time_limit \in 1..MaxWindow
    /\ token = max_calls
    /\ clock = 0
    /\ time = clock
    /\ pc = "idle"
    /\ cur = "f1"
    /\ now = 0
    /\ ret = FALSE
    /\ refilled = FALSE
    /\ granted = 0
    /\ proceeded = NoCalls
    /\ recent = [a \in 0..(time_limit - 1) |-> 0]
    /\ blocked = FALSE
    /\ w0 = 0
    /\ slept = 0
    /\ invoked = 0
    /\ funcOutcome = "none"
    /\ result = "none"
    /\ tpc = [t \in Threads |-> "idle"]
    /\ tnow = [t \in Threads |-> 0]
    /\ treg = [t \in Threads |-> 0]
    /\ raced = FALSE
    /\ bkt = <<>>
    /\ obj = [w \in Wrappers |-> 0]
    /\ byArg = [w \in Wrappers |-> "undecorated"]
    /\ qpc = "idle"
    /\ qcur = "g1"
    /\ qnow = 0
    /\ qgranted = [w \in Wrappers |-> 0]

\* ------------------------------------------------------- sequential use
\* perf_counter() advances.
Tick ==
    /\ clock < MaxTime
    /\ clock' = clock + 1
    /\ recent' = Aged(recent, 1)
    /\ UNCHANGED <<bucketVars, pairVars, token, time, granted, pc, cur, now, ret,
                   refilled, proceeded, callVars, raceVars>>

\* The bucket's part of a pause() call at the current clock.
ApplyPause(r) ==
    /\ token' = r.token
    /\ time' = r.time
    /\ ret' = r.ret
    /\ refilled' = r.refilled
    /\ granted' = IF r.ret THEN granted
                  ELSE IF r.refilled THEN 1 ELSE granted + 1
    /\ recent' = IF r.ret THEN recent ELSE [recent EXCEPT ![0] = @ + 1]
    /\ proceeded' = IF r.refilled THEN NoCalls ELSE proceeded

\* obj.pause() called directly, lines 62-66.
Pause ==
    /\ pc = "idle"
    /\ ApplyPause(PauseResult(token, time, clock, max_calls, time_limit))
    /\ pc' = "paused"
    /\ UNCHANGED <<bucketVars, pairVars, clock, cur, now, callVars, raceVars>>

\* obj.restock() called directly, lines 69-75.
Restock ==
    /\ pc = "idle"
    /\ LET r == RestockResult(token, time, clock, max_calls, time_limit) IN
         /\ token' = r.token
         /\ time' = r.time
         /\ ret' = r.ret
         /\ refilled' = r.ret
         /\ granted' = IF r.ret THEN 0 ELSE granted
         /\ proceeded' = IF r.ret THEN NoCalls ELSE proceeded
    /\ pc' = "restocked"
    /\ UNCHANGED <<bucketVars, pairVars, clock, cur, now, recent, callVars, raceVars>>

\* limit_wrapper(*args, **kwargs) is entered, line 89.
Call ==
    /\ pc = "idle"
    /\ clock <= MaxTime
    /\ \E f \in Funcs : cur' = f
    /\ pc' = "loop"
    /\ UNCHANGED <<bucketVars, pairVars, token, time, clock, granted, now, ret, refilled,
                   proceeded, recent, callVars, raceVars>>

\* line 90: while obj.pause()
WPause ==
    /\ pc = "loop"
    /\ LET r == PauseResult(token, time, clock, max_calls, time_limit) IN
         /\ ApplyPause(r)
         /\ pc' = IF r.ret THEN "read" ELSE "func"
         /\ blocked' = (blocked \/ r.ret)
         /\ w0' = IF r.ret /\ ~blocked THEN time ELSE w0
    /\ UNCHANGED <<bucketVars, pairVars, clock, cur, now, slept, invoked, funcOutcome,
                   result, raceVars>>

\* lines 91-92: log(...); now = perf_counter()
ReadClock ==
    /\ pc = "read"
    /\ now' = clock
    /\ pc' = "sleep"
    /\ UNCHANGED <<bucketVars, pairVars, token, time, clock, granted, cur, ret, refilled,
                   proceeded, recent, callVars, raceVars>>

\* line 93: sleep(obj.time_limit - (now - obj.time)).  time.sleep raises
\* ValueError for a negative length, which ends the wrapper call; otherwise
\* it returns once at least the requested time has passed (Tick adds the
\* excess).  now is dead afterwards.
Sleep ==
    /\ pc = "sleep"
    /\ LET d == SleepFor(time_limit, now, time) IN
         IF d < 0
         THEN /\ pc' = "done"
              /\ result' = "ValueError"
              /\ UNCHANGED <<clock, slept, recent>>
         ELSE /\ pc' = "loop"
              /\ clock' = clock + d
              /\ recent' = Aged(recent, d)
              /\ slept' = slept + 1
              /\ UNCHANGED result
    /\ now' = 0
    /\ UNCHANGED <<bucketVars, pairVars, token, time, granted, cur, ret, refilled,
                   proceeded, blocked, w0, invoked, funcOutcome, raceVars>>

\* line 94: return func(*args, **kwargs)
Func ==
    /\ pc = "func"
    /\ \E o \in FuncOutcomes :
         /\ funcOutcome' = o
         /\ result' = o
         /\ token' = TokenAfterCall(token, o)
    /\ invoked' = invoked + 1
    /\ proceeded' = [proceeded EXCEPT ![cur] = @ + 1]
    /\ pc' = "done"
    /\ UNCHANGED <<bucketVars, pairVars, time, clock, granted, cur, now, ret,
                   refilled, recent, blocked, w0, slept, raceVars>>

\* Control is back with the caller: the finished call's frame is gone.
Return ==
    /\ pc \in {"paused", "restocked", "done"}
    /\ pc' = "idle"
    /\ cur' = "f1"
    /\ ret' = FALSE
    /\ refilled' = FALSE
    /\ blocked' = FALSE
    /\ w0' = 0
    /\ slept' = 0
    /\ invoked' = 0
    /\ funcOutcome' = "none"
    /\ result' = "none"
    /\ UNCHANGED <<bucketVars, pairVars, token, time, clock, granted, now, proceeded,
                   recent, raceVars>>

WrapperStep == WPause \/ ReadClock \/ Sleep \/ Func

Next ==
    \/ Tick \/ Pause \/ Restock \/ Call
    \/ WPause \/ ReadClock \/ Sleep \/ Func \/ Return

Spec == Init /\ [][Next]_vars

\* A thread in limit_wrapper keeps executing its statements.
LiveSpec == Init /\ [][Next]_vars /\ WF_vars(WrapperStep)

\* ------------------------------------------------- two threads, no lock
\* Each thread calls pause() again and again; a thread switch can fall
\* between any two of its steps: the token test (line 63), restock's clock
\* read, test and two assignments (lines 70-74), and the load and the store
\* of self.token -= 1 (line 65).  Locals are reset once dead.
RaceInit ==
    /\ Init
    /\ max_calls >= 1

RaceFrame == UNCHANGED <<bucketVars, pairVars, pc, cur, now, ret, refilled, proceeded,
                         recent, callVars>>

\* perf_counter() advances.
RTick ==
    /\ clock < MaxTime
    /\ clock' = clock + 1
    /\ UNCHANGED <<token, time, granted, raceVars>>
    /\ RaceFrame

\* Thread t enters pause(), line 62.
REnter(t) ==
    /\ tpc[t] = "idle"
    /\ tpc' = [tpc EXCEPT ![t] = "test"]
    /\ UNCHANGED <<token, time, clock, granted, tnow, treg, raced>>
    /\ RaceFrame

\* line 63: self.token <= 0; if not, on to line 65.
RTest(t) ==
    /\ tpc[t] = "test"
    /\ tpc' = [tpc EXCEPT ![t] = IF TokenExhausted(token) THEN "clock" ELSE "load"]
    /\ UNCHANGED <<token, time, clock, granted, tnow, treg, raced>>
    /\ RaceFrame

\* line 70: now = perf_counter()
RNow(t) ==
    /\ tpc[t] = "clock"
    /\ tnow' = [tnow EXCEPT ![t] = clock]
    /\ tpc' = [tpc EXCEPT ![t] = "compare"]
    /\ UNCHANGED <<token, time, clock, granted, treg, raced>>
    /\ RaceFrame

\* lines 71-72: inside the window restock() returns False and pause()
\* returns True (line 64).
RCompare(t) ==
    /\ tpc[t] = "compare"
    /\ IF WindowActive(tnow[t], time, time_limit)
       THEN /\ tpc' = [tpc EXCEPT ![t] = "idle"]
            /\ tnow' = [tnow EXCEPT ![t] = 0]
       ELSE /\ tpc' = [tpc EXCEPT ![t] = "settoken"]
            /\ UNCHANGED tnow
    /\ UNCHANGED <<token, time, clock, granted, treg, raced>>
    /\ RaceFrame

\* line 73: self.token = self.max_calls
RSetToken(t) ==
    /\ tpc[t] = "settoken"
    /\ token' = RefillToken(max_calls)
    /\ granted' = 0
    /\ tpc' = [tpc EXCEPT ![t] = "settime"]
    /\ UNCHANGED <<time, clock, tnow, treg, raced>>
    /\ RaceFrame

\* line 74: self.time = now; restock() returns True, on to line 65.
RSetTime(t) ==
    /\ tpc[t] = "settime"
    /\ time' = tnow[t]
    /\ tnow' = [tnow EXCEPT ![t] = 0]
    /\ tpc' = [tpc EXCEPT ![t] = "load"]
    /\ UNCHANGED <<token, clock, granted, treg, raced>>
    /\ RaceFrame

\* line 65, first half: load self.token
RLoad(t) ==
    /\ tpc[t] = "load"
    /\ treg' = [treg EXCEPT ![t] = token]
    /\ tpc' = [tpc EXCEPT ![t] = "store"]
    /\ UNCHANGED <<token, time, clock, granted, tnow, raced>>
    /\ RaceFrame

\* line 65, second half: store the decremented value; pause() returns
\* False (line 66) and the caller proceeds.
RStore(t) ==
    /\ tpc[t] = "store"
    /\ token' = TakeToken(treg[t])
    /\ granted' = granted + 1
    /\ raced' = (raced \/ token # treg[t] \/ TakeToken(treg[t]) < 0)
    /\ treg' = [treg EXCEPT ![t] = 0]
    /\ tpc' = [tpc EXCEPT ![t] = "idle"]
    /\ UNCHANGED <<time, clock, tnow>>
    /\ RaceFrame

RaceNext ==
    \/ RTick
    \/ \E t \in Threads :
         \/ REnter(t) \/ RTest(t) \/ RNow(t) \/ RCompare(t)
         \/ RSetToken(t) \/ RSetTime(t) \/ RLoad(t) \/ RStore(t)

RaceSpec == RaceInit /\ [][RaceNext]_vars

\* ------------------------------------------- two decorators, one caller
\* limits = RateLimit(...) is constructed first (docstring, line 17); then
\* each wrapper is built by its own rate_limit(...) call, given limits or no
\* obj at all, and one caller calls the wrappers one at a time.  The
\* single-bucket variables are not used here.
PairInit ==
    /\ Init
    /\ max_calls = 1
    /\ time_limit = 1

PairFrame == UNCHANGED <<bucketVars, token, time, granted, pc, cur, now, ret,
                         refilled, proceeded, recent, callVars, raceVars>>

\* RateLimit.__init__, lines 55-59, at clock reading nw.
NewRateLimit(mc, tl, nw) ==
    [max_calls |-> mc, time_limit |-> tl, token |-> mc, time |-> nw]

\* Slip of rate_limit: a missing obj falls back to the one bucket that
\* exists already instead of a new one.
BucketForShared(arg, fresh) == IF arg = 0 THEN 1 ELSE arg

\* lines 84-85: if obj is None: obj = RateLimit(max_calls, time_limit).
\* arg = 0 stands for None; fresh is the object the constructor returns.
BucketFor(arg, fresh) == IF arg = 0 THEN fresh ELSE arg

\* perf_counter() advances.
QTick ==
    /\ clock < PairTime
    /\ clock' = clock + 1
    /\ UNCHANGED pairVars
    /\ PairFrame

\* limits = RateLimit(1, 1), lines 55-59.
QConstruct ==
    /\ bkt = <<>>
    /\ bkt' = <<NewRateLimit(1, 1, clock)>>
    /\ UNCHANGED <<clock, obj, byArg, qpc, qcur, qnow, qgranted>>
    /\ PairFrame

\* rate_limit(obj, max_calls = mc, time_limit = tl)(func), lines 81-96:
\* wrapper w is built, closing over obj.
QDecorate(w) ==
    /\ bkt # <<>>
    /\ qpc = "idle"
    /\ obj[w] = 0
    /\ \E arg \in {0, 1}, mc \in 1..PairQuota, tl \in 1..MaxWindow :
         /\ bkt' = IF arg = 0 THEN Append(bkt, NewRateLimit(mc, tl, clock))
                   ELSE bkt
         /\ obj' = [obj EXCEPT ![w] = BucketFor(arg, Len(bkt) + 1)]
         /\ byArg' = [byArg EXCEPT ![w] = IF arg = 0 THEN "none" ELSE "limits"]
    /\ UNCHANGED <<clock, qpc, qcur, qnow, qgranted>>
    /\ PairFrame

\* Wrapper w is called, line 89.
QCall(w) ==
    /\ qpc = "idle"
    /\ obj[w] # 0
    /\ clock <= PairTime
    /\ qcur' = w
    /\ qpc' = "loop"
    /\ UNCHANGED <<clock, bkt, obj, byArg, qnow, qgranted>>
    /\ PairFrame

\* line 90: while obj.pause()
QPause ==
    /\ qpc = "loop"
    /\ LET b == obj[qcur]
           o == bkt[b]
           r == PauseResult(o.token, o.time, clock, o.max_calls, o.time_limit)
       IN
         /\ bkt' = [bkt EXCEPT ![b].token = r.token, ![b].time = r.time]
         /\ qpc' = IF r.ret THEN "read" ELSE "func"
         /\ qgranted' =
              [w \in Wrappers |->
                 IF r.ret THEN qgranted[w]
                 ELSE IF w = qcur
                      THEN (IF r.refilled THEN 1 ELSE qgranted[w] + 1)
                      ELSE (IF r.refilled /\ obj[w] = b THEN 0 ELSE qgranted[w])]
    /\ UNCHANGED <<clock, obj, byArg, qcur, qnow>>
    /\ PairFrame

\* lines 91-92: log(...); now = perf_counter()
QReadClock ==
    /\ qpc = "read"
    /\ qnow' = clock
    /\ qpc' = "sleep"
    /\ UNCHANGED <<clock, bkt, obj, byArg, qcur, qgranted>>
    /\ PairFrame

\* line 93: sleep(obj.time_limit - (now - obj.time)); a negative length
\* raises ValueError and ends the call.
QSleep ==
    /\ qpc = "sleep"
    /\ LET o == bkt[obj[qcur]]
           d == SleepFor(o.time_limit, qnow, o.time)
       IN IF d < 0
          THEN qpc' = "idle" /\ UNCHANGED clock
          ELSE qpc' = "loop" /\ clock' = clock + d
    /\ qnow' = 0
    /\ UNCHANGED <<bkt, obj, byArg, qcur, qgranted>>
    /\ PairFrame

\* line 94: return func(*args, **kwargs)
QFunc ==
    /\ qpc = "func"
    /\ qpc' = "idle"
    /\ UNCHANGED <<clock, bkt, obj, byArg, qcur, qnow, qgranted>>
    /\ PairFrame

PairNext ==
    \/ QTick \/ QConstruct
    \/ \E w \in Wrappers : QDecorate(w) \/ QCall(w)
    \/ QPause \/ QReadClock \/ QSleep \/ QFunc

PairSpec == PairInit /\ [][PairNext]_vars

\* ---------------------------------------------------------------- claims
\* A step that is a whole pause() call, direct or from limit_wrapper.
PauseStep ==
    \/ pc = "idle" /\ pc' = "paused"
    \/ pc = "loop" /\ pc' \in {"read", "func"}

\* A step that is a whole direct restock() call.
RestockStep == pc = "idle" /\ pc' = "restocked"

\* C1: with max_calls >= 1 and sequential use, the invocations of all the
\* wrapped functions sharing the bucket since the last refill (or since
\* construction), the refilling call included, number at most max_calls; so
\* do the tokens handed out.
C1_CombinedQuota ==
    max_calls >= 1 => (Proceeded <= max_calls /\ granted <= max_calls)

\* C1 witness: after a refill, both wrapped functions have proceeded and
\* together they have used the whole quota.
C1_QuotaSharedAfterRefill ==
    /\ max_calls = 2
    /\ time > 0
    /\ proceeded["f1"] = 1
    /\ proceeded["f2"] = 1

\* C2: with max_calls >= 1, the tokens handed out in any time_limit
\* consecutive ticks number at most max_calls.
C2_RateBoundAnyInterval ==
    max_calls >= 1 => RecentTokens <= max_calls

\* C3: with max_calls >= 1, a wrapper call goes to sleep only from a pause()
\* that found token <= 0 with less than time_limit elapsed since the window
\* start, and only once max_calls tokens have been handed out since the last
\* refill (or construction).
C3_NoBlockingUnderQuota ==
    /\ [](max_calls >= 1 /\ pc \in {"read", "sleep"}
            => token <= 0 /\ granted >= max_calls)
    /\ [][max_calls >= 1 /\ pc = "loop" /\ pc' = "read"
            => token <= 0 /\ clock - time < time_limit]_vars

\* C3 witness: a wrapper call is about to sleep.
C3_AboutToSleep == max_calls >= 1 /\ pc = "sleep"

\* C4: with max_calls >= 1, a wrapper call that found the tokens exhausted
\* sleeps exactly once, invokes the wrapped function no earlier than the old
\* window start plus time_limit, and leaves token = max_calls - 1 with the
\* window start at the refill.
C4_BlockUntilBoundary ==
    max_calls >= 1 /\ blocked =>
        /\ pc = "func" =>
              /\ slept = 1
              /\ refilled
              /\ clock >= w0 + time_limit
              /\ time >= w0 + time_limit
              /\ token = max_calls - 1
        /\ pc = "done" =>
              /\ slept = 1
              /\ invoked = 1
              /\ token = max_calls - 1

\* C5 as stated: a pause() called when at least time_limit has elapsed since
\* the window start leaves token = max_calls - 1, whatever was left.
C5_ResetWheneverElapsed ==
    [][PauseStep /\ clock - time >= time_limit => token' = max_calls - 1]_vars

\* C5 amended: a pause() called when at least time_limit has elapsed resets
\* the bucket only if token <= 0: then token is max_calls - 1 afterwards and
\* the window starts at the call; with token > 0 it takes one of the tokens
\* left and the window start stays.
C5_ResetWhenExhausted ==
    [][PauseStep /\ clock - time >= time_limit =>
         IF token <= 0
         THEN token' = max_calls - 1 /\ time' = clock /\ ~ret'
         ELSE token' = token - 1 /\ time' = time /\ ~ret']_vars

\* C5 witness: a pause() has just refilled an exhausted bucket.
C5_PauseRefilled ==
    max_calls >= 1 /\ pc = "paused" /\ refilled /\ token = max_calls - 1

\* C6: with max_calls >= 1 and sequential use, 0 <= token <= max_calls.
C6_TokenRange == max_calls >= 1 => (0 <= token /\ token <= max_calls)

\* C6 witness: a pause() has just taken the last token.
C6_LastTokenTaken ==
    max_calls >= 1 /\ pc = "paused" /\ ~ret /\ ~refilled /\ token = 0

\* C7: with max_calls >= 1, every wrapper call eventually leaves the wait
\* loop and invokes the wrapped function.
C7_WrapperTerminates == (max_calls >= 1 /\ pc = "loop") ~> (pc = "func")

\* C8: a finished wrapper call has invoked the wrapped function exactly
\* once, after a pause() that returned False, and its outcome is the wrapped
\* function's outcome.
C8_TransparentForwarding ==
    /\ pc = "func" => ~ret
    /\ pc = "done" => (invoked = 1 /\ ~ret /\ result = funcOutcome)

\* C9: a restock() called while less than time_limit has elapsed since the
\* window start returns False and leaves token and the window start as they
\* were.
C9_RestockNoOpInWindow ==
    [][RestockStep /\ clock - time < time_limit
         => ~ret' /\ token' = token /\ time' = time]_vars

\* C9 witness: a restock() inside a partly used, partly elapsed window has
\* returned False.
C9_RestockDeclined ==
    /\ pc = "restocked"
    /\ ~ret
    /\ clock > time
    /\ token < max_calls

\* C10: two threads in pause() on one bucket with no lock can hand out more
\* than max_calls tokens between two refills (the witness), and they do so
\* only through the race: a store of the decrement that overwrote another
\* thread's update of token or that took token below 0.
C10_OverQuotaOnlyByRace ==
    max_calls >= 1 /\ granted > max_calls => raced

\* C10 witness: more than max_calls calls have proceeded since the last
\* refill.
C10_OverQuota == max_calls >= 1 /\ granted > max_calls

\* Further reachable outcomes of the race.
C10_TokenNegative == token < 0
C10_LostUpdate == raced /\ token >= 0 /\ granted > max_calls

\* C11: whenever the wrapper is about to sleep, the length it passes to
\* sleep, time_limit - (now - time) with now read at line 92, is not
\* negative.
C11_SleepLengthNonNegative ==
    pc = "sleep" => SleepFor(time_limit, now, time) >= 0

\* C12: the window start never decreases, and it changes only in a pause()
\* or restock() step that refills, made when at least time_limit has elapsed
\* since its previous value; its new value is the time of that call.
C12_WindowStartOnlyOnRefill ==
    [][/\ time' >= time
       /\ time' # time =>
            /\ PauseStep \/ RestockStep
            /\ refilled'
            /\ time' = clock
            /\ time' - time >= time_limit]_vars

\* C12 witness: a refill has moved the window start.
C12_WindowMoved == refilled /\ time > 0 /\ time = clock

\* C13: pause() returns True exactly when token <= 0 and less than
\* time_limit has elapsed since the window start, and then token and the
\* window start stay; otherwise it returns False with token one less than
\* after the refill check: token - 1 if token > 0, max_calls - 1 after a
\* refill.  The wrapper goes on to sleep exactly on True.
C13_PauseDecision ==
    [][PauseStep =>
         LET wait == token <= 0 /\ clock - time < time_limit IN
           /\ ret' = wait
           /\ pc = "loop" => (pc' = "read") = wait
           /\ wait => token' = token /\ time' = time
           /\ ~wait => token' = IF token > 0 THEN token - 1
                                ELSE max_calls - 1]_vars

\* C13 witness: a pause() has been denied inside the window.
C13_PauseDenied == pc = "paused" /\ ret /\ token <= 0 /\ clock > time

\* C14: a restock() called when at least time_limit has elapsed since the
\* window start returns True, sets token to max_calls whatever it was, and
\* sets the window start to the time of the call.
C14_RestockRefills ==
    [][RestockStep /\ clock - time >= time_limit
         => ret' /\ token' = max_calls /\ time' = clock]_vars

\* C14 witness: a restock() made later than the window's end has refilled
\* the bucket; the previous window started at 0, so the new start is not the
\* old one plus time_limit.
C14_RestockLate ==
    /\ pc = "restocked"
    /\ ret
    /\ token = max_calls
    /\ time = clock
    /\ time > time_limit
    /\ time < 2 * time_limit

\* C15: a bucket constructed with max_calls = 0 never hands out a token:
\* every pause() returns True, no wrapper call reaches the wrapped function,
\* and token stays at 0.
C15_ZeroQuotaAlwaysWaits ==
    max_calls = 0 =>
        /\ token >= 0
        /\ pc = "paused" => ret
        /\ pc # "func"
        /\ granted = 0

\* C17: the invocation of the wrapped function leaves token and the window
\* start as pause() left them, whether the function returns or raises; after
\* a failed call (max_calls >= 1) the token taken for it is still counted:
\* token = max_calls minus the tokens handed out since the last refill.
C17_NoRefundOnFailure ==
    /\ [][pc = "func" /\ pc' = "done"
            => token' = token /\ time' = time /\ granted' = granted]_vars
    /\ [](max_calls >= 1 /\ pc = "done" /\ result = "err_x"
            => granted >= 1 /\ token = max_calls - granted)

\* C17 witness: a wrapper call has ended with the wrapped function's error.
C17_CallFailed ==
    max_calls >= 1 /\ pc = "done" /\ result = "err_x" /\ invoked = 1

\* C16: two wrappers built by rate_limit(...) calls without an obj argument
\* hold different RateLimit objects; no step of a call of another wrapper
\* changes a private wrapper's token count or window start; and a private
\* wrapper blocks only once its own calls have used its own quota.
C16_PrivateBucketsIndependent ==
    /\ []((\A w \in Wrappers : byArg[w] = "none") => obj["g1"] # obj["g2"])
    /\ [][\A w \in Wrappers :
            byArg[w] = "none" /\ qpc # "idle" /\ qcur # w
              => bkt'[obj[w]] = bkt[obj[w]]]_vars
    /\ [](qpc \in {"read", "sleep"} /\ byArg[qcur] = "none"
            => qgranted[qcur] >= bkt[obj[qcur]].max_calls)

\* C16 witness: both wrappers have private buckets, g1 is blocked, and g2,
\* which has been called, still has tokens.
C16_OneBlockedOtherFree ==
    /\ \A w \in Wrappers : byArg[w] = "none"
    /\ qpc = "sleep"
    /\ qcur = "g1"
    /\ qgranted["g2"] >= 1
    /\ bkt[obj["g2"]].token > 0

====
